---- MODULE Spec2Model ----
(***************************************************************************)
(* Model of mrmd-orchestrator: the PortAllocator, the Orchestrator's       *)
(* session / monitor / lifecycle coroutines (orchestrator.py) and the      *)
(* ProcessManager they drive.  Coroutines run on one asyncio event loop:   *)
(* a coroutine runs atomically from one suspension point to the next, and  *)
(* the only suspension points are inside ProcessManager.start / stop /     *)
(* stop_all, where the loop waits on a child process.                      *)
(***************************************************************************)
EXTENDS Integers, FiniteSets, Sequences, TLC

VARIABLES
    base_port,   \* PortAllocator.base_port
    max_ports,   \* PortAllocator.max_ports
    allocated,   \* PortAllocator._allocated
    sessions,    \* Orchestrator._sessions : doc -> SessionInfo
    monitors,    \* Orchestrator._monitors : doc -> process name
    procs,       \* ProcessManager table   : process name -> status
    started,     \* Orchestrator._started
    config,      \* OrchestratorConfig (immutable after construction)
    tasks,       \* one frame per coroutine slot of the event loop
    done,        \* the call that returned in the step just taken, if any
    calls,       \* calls made so far (bounded by MaxCalls)
    faults,      \* child processes that failed so far (bounded by MaxFaults)
    last         \* the last direct PortAllocator call and the set it found

vars == <<base_port, max_ports, allocated, sessions, monitors, procs,
          started, config, tasks, done, calls, faults, last>>

----------------------------------------------------------------------------
(* Bounds of the model *)

\* Ports in the orchestrator's range (the code's default is 100).
MaxPorts == 2

\* Calls of the Orchestrator's coroutines in one run.
MaxCalls == 4

\* Child processes that fail to start or exit on their own in one run.
MaxFaults == 1

Docs == {"d1", "d2"}
\* API handler coroutines that may overlap, and the main coroutine of the cli
Handlers == {"t1", "t2"}
Main == "main"
Tasks == Handlers \cup {Main}
Modes == {"shared", "dedicated"}

\* Orchestrator.__init__: PortAllocator(base_port=8001)
OrchestratorBasePort == 8001

\* Ranges tried on a stand-alone PortAllocator: bases and sizes up to MaxRange
\* (they include the documented scenario [9000, 9003)).
AllocatorBases == {OrchestratorBasePort, 9000}
MaxRange == 3

----------------------------------------------------------------------------
(* Python dict helpers *)

DictSet(f, k, v) == [x \in (DOMAIN f) \cup {k} |-> IF x = k THEN v ELSE f[x]]
DictDel(f, k) == [x \in (DOMAIN f) \ {k} |-> f[x]]
DictGet(f, k, dflt) == IF k \in DOMAIN f THEN f[k] ELSE dflt
EmptyDict == [x \in {} |-> 0]

----------------------------------------------------------------------------
(* SessionInfo *)

\* None is "" for the optional strings and 0 for the optional port.
SessionInfo(d) ==
    [doc |-> d, monitor_process |-> "", runtime_process |-> "",
     runtime_url |-> "", runtime_port |-> 0, dedicated_runtime |-> FALSE]

NoSession == SessionInfo("")

MonitorName(d) == "monitor:" \o d
RuntimeName(d) == "python:" \o d
SyncName == "mrmd-sync"
PythonName == "mrmd-python"

SharedUrl == "http://localhost:8000/mrp/v1"
DedicatedUrl(port) == "http://localhost:" \o ToString(port) \o "/mrp/v1"

----------------------------------------------------------------------------
(* PortAllocator *)

PortRange(base, max) == base .. (base + max - 1)

\* lines 41-46: the ascending scan from offset; 0 stands for the RuntimeError
RECURSIVE AllocateScan(_, _, _, _)
AllocateScan(alloc, base, max, offset) ==
    IF offset >= max THEN 0
    ELSE IF (base + offset) \notin alloc THEN base + offset
    ELSE AllocateScan(alloc, base, max, offset + 1)

\* Mutant: the scan runs one offset too far.
AllocatePortOffByOne(alloc, base, max) == AllocateScan(alloc, base, max + 1, 0)

\* Mutant: the scan skips offset 0.
AllocatePortSkipsFirst(alloc, base, max) ==
    IF max > 1 /\ AllocateScan(alloc, base, max, 1) # 0
    THEN AllocateScan(alloc, base, max, 1)
    ELSE AllocateScan(alloc, base, max, 0)

\* allocate's return value
AllocatePort(alloc, base, max) == AllocateScan(alloc, base, max, 0)

\* Mutant: allocate returns the port without recording it.
AllocateMarkForgets(alloc, port) == alloc

\* allocate's effect on _allocated
AllocateMark(alloc, port) == IF port = 0 THEN alloc ELSE alloc \cup {port}

\* Mutant: release forgets to discard.
ReleaseKeeps(alloc, port) == alloc

\* release
ReleasePort(alloc, port) == alloc \ {port}

is_allocated(alloc, port) == port \in alloc

----------------------------------------------------------------------------
(* ProcessManager: the supervisor's table of named child processes.        *)
(* A record is "starting", "running", "stopping" or "failed"; a stopped    *)
(* record is removed from the table.                                       *)

NonTerminal == {"starting", "running", "stopping"}

ProcStatus(table, name) == DictGet(table, name, "stopped")

\* Mutant: start never finds an existing record and always spawns.
ProcStartAlwaysSpawns(table, name) == FALSE

\* start(name, ...) on a name with a non-terminal record returns that record
ProcStartReturnsExisting(table, name) == ProcStatus(table, name) \in NonTerminal

\* start(name, ...) spawns the child and waits for its readiness marker
ProcSpawn(table, name) == DictSet(table, name, "starting")

\* stop(name) has a live child to terminate and wait for
ProcStopSuspends(table, name) == ProcStatus(table, name) \in NonTerminal

ProcStopBegin(table, name) == DictSet(table, name, "stopping")

\* stop(name) removes the record once the child is dead
ProcRemove(table, name) == DictDel(table, name)

\* the end of a suspended stop(name): the record this call was stopping
ProcStopEnd(table, name) ==
    IF ProcStatus(table, name) = "stopping" THEN ProcRemove(table, name) ELSE table

is_running(table, name) == ProcStatus(table, name) = "running"

\* stop_all(): every live child is told to terminate
ProcStopAllBegin(table) ==
    [n \in DOMAIN table |-> IF table[n] \in NonTerminal THEN "stopping" ELSE table[n]]

ProcAnyLive(table) == \E n \in DOMAIN table : table[n] \in NonTerminal

----------------------------------------------------------------------------
(* Coroutine frames *)

IdleFrame ==
    [pc |-> "idle", op |-> "none", doc |-> "", mode |-> "", found |-> NoSession,
     session |-> NoSession, port |-> 0, todo |-> <<>>]

NoDone == [op |-> "none", doc |-> "", mode |-> "", ret |-> "none", found |-> NoSession]

\* the state a coroutine segment reads and writes
World(t) ==
    [allocated |-> allocated, sessions |-> sessions, monitors |-> monitors,
     procs |-> procs, started |-> started, f |-> tasks[t], done |-> NoDone]

\* the coroutine returns (or raises) ret; its locals die with it
Return(W, ret) ==
    [W EXCEPT !.f = IdleFrame,
              !.done = [op |-> W.f.op, doc |-> W.f.doc, mode |-> W.f.mode,
                        ret |-> ret, found |-> W.f.found]]

Suspend(W, pc) == [W EXCEPT !.f.pc = pc]

----------------------------------------------------------------------------
(* Orchestrator.create_session, from its last line backwards.  Each        *)
(* operator is the code from one point up to the next suspension (or the   *)
(* return).                                                                *)

\* lines 362-364: store and return the session
CreateStore(W) ==
    Return([W EXCEPT !.sessions = DictSet(@, W.f.doc, W.f.session)], "session")

\* lines 347-351: processes.start returned; the result is not inspected
CreateAfterRuntimeStart(W) ==
    CreateStore([W EXCEPT !.f.session =
        [@ EXCEPT !.runtime_process = RuntimeName(W.f.doc),
                  !.runtime_url = DedicatedUrl(W.f.port),
                  !.runtime_port = W.f.port,
                  !.dedicated_runtime = TRUE]])

\* lines 355-360: bind to the shared runtime
CreateShared(W) ==
    CreateStore(IF config.python_configured
                THEN [W EXCEPT !.f.session =
                        [@ EXCEPT !.runtime_url = SharedUrl,
                                  !.dedicated_runtime = FALSE]]
                ELSE W)

\* Mutant: a second port is allocated for the same runtime and never used.
CreateDedicatedAllocatesTwice(W) ==
    LET first == AllocatePort(W.allocated, base_port, max_ports)
        W0 == [W EXCEPT !.allocated = AllocateMark(@, first)]
        port == AllocatePort(W0.allocated, base_port, max_ports)
        W1 == [W0 EXCEPT !.allocated = AllocateMark(@, port), !.f.port = port]
        name == RuntimeName(W.f.doc)
    IN  IF port = 0 THEN Return(W, "RuntimeError")
        ELSE IF config.python_path
        THEN IF ProcStartReturnsExisting(W1.procs, name)
             THEN CreateAfterRuntimeStart(W1)
             ELSE Suspend([W1 EXCEPT !.procs = ProcSpawn(@, name)],
                          "create_runtime_wait")
        ELSE CreateStore([W1 EXCEPT !.allocated = ReleasePort(@, port)])

\* Mutant: the port stays reserved when the runtime package is missing.
CreateDedicatedKeepsPort(W) ==
    LET port == AllocatePort(W.allocated, base_port, max_ports)
        W1 == [W EXCEPT !.allocated = AllocateMark(@, port), !.f.port = port]
        name == RuntimeName(W.f.doc)
    IN  IF port = 0 THEN Return(W, "RuntimeError")
        ELSE IF config.python_path
        THEN IF ProcStartReturnsExisting(W1.procs, name)
             THEN CreateAfterRuntimeStart(W1)
             ELSE Suspend([W1 EXCEPT !.procs = ProcSpawn(@, name)],
                          "create_runtime_wait")
        ELSE CreateStore(W1)

\* Mutant: an exhausted range is absorbed and an unbound session is stored.
CreateDedicatedAbsorbs(W) ==
    LET port == AllocatePort(W.allocated, base_port, max_ports)
        W1 == [W EXCEPT !.allocated = AllocateMark(@, port), !.f.port = port]
        name == RuntimeName(W.f.doc)
    IN  IF port = 0 THEN CreateStore(W)
        ELSE IF config.python_path
        THEN IF ProcStartReturnsExisting(W1.procs, name)
             THEN CreateAfterRuntimeStart(W1)
             ELSE Suspend([W1 EXCEPT !.procs = ProcSpawn(@, name)],
                          "create_runtime_wait")
        ELSE CreateStore([W1 EXCEPT !.allocated = ReleasePort(@, port)])

\* lines 318-354: allocate a port and start the dedicated runtime
CreateDedicated(W) ==
    LET port == AllocatePort(W.allocated, base_port, max_ports)
        W1 == [W EXCEPT !.allocated = AllocateMark(@, port), !.f.port = port]
        name == RuntimeName(W.f.doc)
    IN  IF port = 0 THEN Return(W, "RuntimeError")
        ELSE IF config.python_path
        THEN IF ProcStartReturnsExisting(W1.procs, name)
             THEN CreateAfterRuntimeStart(W1)
             ELSE Suspend([W1 EXCEPT !.procs = ProcSpawn(@, name)],
                          "create_runtime_wait")
        ELSE CreateStore([W1 EXCEPT !.allocated = ReleasePort(@, port)])

\* lines 317-360
CreateRuntime(W) ==
    IF W.f.mode = "dedicated" THEN CreateDedicated(W) ELSE CreateShared(W)

\* line 315: session.monitor_process = self._monitors.get(doc_name)
CreateAfterMonitor(W) ==
    CreateRuntime([W EXCEPT !.f.session.monitor_process =
                        DictGet(W.monitors, W.f.doc, "")])

----------------------------------------------------------------------------
(* Orchestrator.start_monitor *)

\* start_monitor returns r to create_session or to the API caller
StartMonitorReturn(W, r) ==
    IF W.f.op = "create" THEN CreateAfterMonitor(W) ELSE Return(W, r)

\* lines 208-214: register the monitor only if its record is running
StartMonitorAfterStart(W) ==
    IF ProcStatus(W.procs, MonitorName(W.f.doc)) = "running"
    THEN StartMonitorReturn(
            [W EXCEPT !.monitors = DictSet(@, W.f.doc, MonitorName(W.f.doc))],
            "True")
    ELSE StartMonitorReturn(W, "False")

\* start_monitor without the managed check of lines 177-179
StartMonitorUnmanaged(W) ==
    IF W.f.doc \in DOMAIN W.monitors THEN StartMonitorReturn(W, "True")
    ELSE IF ~config.monitor_path THEN StartMonitorReturn(W, "False")
    ELSE IF ProcStartReturnsExisting(W.procs, MonitorName(W.f.doc))
    THEN StartMonitorAfterStart(W)
    ELSE Suspend([W EXCEPT !.procs = ProcSpawn(@, MonitorName(W.f.doc))],
                 "start_monitor_wait")

\* lines 177-206
start_monitor(W) ==
    IF ~config.monitor_managed THEN StartMonitorReturn(W, "False")
    ELSE IF W.f.doc \in DOMAIN W.monitors THEN StartMonitorReturn(W, "True")
    ELSE IF ~config.monitor_path THEN StartMonitorReturn(W, "False")
    ELSE IF ProcStartReturnsExisting(W.procs, MonitorName(W.f.doc))
    THEN StartMonitorAfterStart(W)
    ELSE Suspend([W EXCEPT !.procs = ProcSpawn(@, MonitorName(W.f.doc))],
                 "start_monitor_wait")

\* lines 310-315: a fresh SessionInfo, then the monitor
CreateBody(W) ==
    LET W1 == [W EXCEPT !.f.session = SessionInfo(W.f.doc)]
    IN  IF config.monitor_managed THEN start_monitor(W1) ELSE CreateRuntime(W1)

----------------------------------------------------------------------------
(* Orchestrator.destroy_session and stop_monitor *)

\* destroy_session returns True to create_session or to the API caller
DestroyReturn(W) ==
    IF W.f.op = "create" THEN CreateBody(W) ELSE Return(W, "True")

\* Mutant: the teardown drops every session, not only the document's own.
DestroyFinishDropsAll(W) ==
    IF W.f.doc \in DOMAIN W.sessions
    THEN DestroyReturn([W EXCEPT !.sessions = EmptyDict])
    ELSE Return(W, "KeyError")

\* lines 391-393: del self._sessions[doc_name] raises KeyError on a missing key
DestroyFinish(W) ==
    IF W.f.doc \in DOMAIN W.sessions
    THEN DestroyReturn([W EXCEPT !.sessions = DictDel(@, W.f.doc)])
    ELSE Return(W, "KeyError")

\* the loop of Orchestrator.stop, lines 101-105, defined below
StopLoopNext(W) == Suspend([W EXCEPT !.f.todo = Tail(@)], "stop_loop")

\* stop_monitor returns r to destroy_session, to stop or to the API caller
StopMonitorReturn(W, r) ==
    IF W.f.op \in {"create", "destroy"} THEN DestroyFinish(W)
    ELSE IF W.f.op = "stop" THEN StopLoopNext(W)
    ELSE Return(W, r)

\* lines 231-234: processes.stop reported success
StopMonitorAfterStop(W) ==
    IF W.f.doc \in DOMAIN W.monitors
    THEN StopMonitorReturn([W EXCEPT !.monitors = DictDel(@, W.f.doc)], "True")
    ELSE Return(W, "KeyError")

\* lines 226-230
stop_monitor(W) ==
    LET name == DictGet(W.monitors, W.f.doc, "")
    IN  IF name = "" THEN StopMonitorReturn(W, "True")
        ELSE IF ProcStopSuspends(W.procs, name)
        THEN Suspend([W EXCEPT !.procs = ProcStopBegin(@, name)],
                     "stop_monitor_wait")
        ELSE StopMonitorAfterStop([W EXCEPT !.procs = ProcRemove(@, name)])

\* Mutant: destroy_session stops the runtime and keeps its port reserved.
DestroyReleaseNever(W) == W

\* lines 383-384: release the port the session recorded
DestroyRelease(W) ==
    IF W.f.found.runtime_port # 0
    THEN [W EXCEPT !.allocated = ReleasePort(@, W.f.found.runtime_port)]
    ELSE W

\* lines 387-393: stop the monitor the session recorded, then drop the session
DestroyMonitor(W) ==
    IF W.f.found.monitor_process # "" THEN stop_monitor(W) ELSE DestroyFinish(W)

\* lines 383-385: processes.stop returned; its result is not inspected
DestroyAfterRuntimeStop(W) == DestroyMonitor(DestroyRelease(W))

\* Mutant: the port is released before the runtime is stopped.
DestroyRuntimeReleaseFirst(W) ==
    LET name == W.f.found.runtime_process
        W0 == DestroyRelease(W)
    IN  IF name = "" THEN DestroyMonitor(W)
        ELSE IF ProcStopSuspends(W.procs, name)
        THEN Suspend([W0 EXCEPT !.procs = ProcStopBegin(@, name)],
                     "destroy_runtime_wait")
        ELSE DestroyAfterRuntimeStop([W0 EXCEPT !.procs = ProcRemove(@, name)])

\* lines 380-382: stop the dedicated runtime of the session found
DestroyRuntime(W) ==
    LET name == W.f.found.runtime_process
    IN  IF name = "" THEN DestroyMonitor(W)
        ELSE IF ProcStopSuspends(W.procs, name)
        THEN Suspend([W EXCEPT !.procs = ProcStopBegin(@, name)],
                     "destroy_runtime_wait")
        ELSE DestroyAfterRuntimeStop([W EXCEPT !.procs = ProcRemove(@, name)])

\* Mutant: destroy_session does not test for a missing session.
DestroySessionUnguarded(W) ==
    DestroyRuntime([W EXCEPT !.f.found = DictGet(W.sessions, W.f.doc, NoSession)])

\* lines 376-378
destroy_session(W) ==
    IF W.f.doc \in DOMAIN W.sessions
    THEN DestroyRuntime([W EXCEPT !.f.found = W.sessions[W.f.doc]])
    ELSE DestroyReturn(W)

\* Mutant: an existing session is always torn down and created again.
CreateSessionRecreates(W) ==
    IF W.f.doc \in DOMAIN W.sessions THEN destroy_session(W) ELSE CreateBody(W)

\* lines 301-310; found is the local the existing session is read into
create_session(W) ==
    IF W.f.doc \in DOMAIN W.sessions
    THEN IF (W.f.mode = "dedicated") # W.sessions[W.f.doc].dedicated_runtime
         THEN destroy_session(W)
         ELSE Return([W EXCEPT !.f.found = W.sessions[W.f.doc]], "session")
    ELSE CreateBody(W)

----------------------------------------------------------------------------
(* Orchestrator.start and Orchestrator.stop *)

\* lines 90-91
StartFinish(W) == Return([W EXCEPT !.started = TRUE], "None")

\* lines 85-88 and 145-165: the shared managed runtime
StartRuntimes(W) ==
    IF config.python_managed /\ config.python_path
    THEN IF ProcStartReturnsExisting(W.procs, PythonName)
         THEN StartFinish(W)
         ELSE Suspend([W EXCEPT !.procs = ProcSpawn(@, PythonName)],
                      "start_runtime_wait")
    ELSE StartFinish(W)

\* start without the _started check of lines 76-77
StartUnguarded(W) ==
    IF config.sync_managed /\ config.sync_path
    THEN IF ProcStartReturnsExisting(W.procs, SyncName)
         THEN StartRuntimes(W)
         ELSE Suspend([W EXCEPT !.procs = ProcSpawn(@, SyncName)],
                      "start_sync_wait")
    ELSE StartRuntimes(W)

\* lines 76-83 and 110-136
start(W) ==
    IF W.started THEN Return(W, "None")
    ELSE IF config.sync_managed /\ config.sync_path
    THEN IF ProcStartReturnsExisting(W.procs, SyncName)
         THEN StartRuntimes(W)
         ELSE Suspend([W EXCEPT !.procs = ProcSpawn(@, SyncName)],
                      "start_sync_wait")
    ELSE StartRuntimes(W)

\* line 107
StopFinish(W) == Return([W EXCEPT !.started = FALSE, !.procs = EmptyDict], "None")

\* line 105: processes.stop_all()
StopAll(W) ==
    IF ProcAnyLive(W.procs)
    THEN Suspend([W EXCEPT !.procs = ProcStopAllBegin(@)], "stop_all_wait")
    ELSE StopFinish(W)

\* lines 101-105: the next monitor of the snapshot, or stop_all after the last
StopLoop(W) ==
    IF W.f.todo = <<>> THEN StopAll(W)
    ELSE stop_monitor([W EXCEPT !.f.doc = Head(W.f.todo)])

\* lines 95-101; keys is list(self._monitors.keys())
stop(W, keys) ==
    IF ~W.started THEN Return(W, "None")
    ELSE Suspend([W EXCEPT !.f.todo = keys], "stop_loop")

----------------------------------------------------------------------------
(* Configuration: what is managed and which package directories exist *)

DevConfig ==
    [sync_managed |-> TRUE, sync_path |-> TRUE,
     python_configured |-> TRUE, python_managed |-> TRUE, python_path |-> TRUE,
     monitor_managed |-> TRUE, monitor_path |-> TRUE]

Configs ==
    { DevConfig,
      [DevConfig EXCEPT !.monitor_managed = FALSE],
      [DevConfig EXCEPT !.python_path = FALSE] }

----------------------------------------------------------------------------
(* The state machine *)

NoCall == [op |-> "none", port |-> 0, ret |-> 0, before |-> {}]

InitOrchestrator ==
    /\ allocated = {}
    /\ sessions = EmptyDict
    /\ monitors = EmptyDict
    /\ procs = EmptyDict
    /\ started = FALSE
    /\ tasks = [t \in Tasks |-> IdleFrame]
    /\ done = NoDone
    /\ calls = 0
    /\ faults = 0
    /\ last = NoCall

\* Orchestrator.__init__, lines 66-72
Init ==
    /\ base_port = OrchestratorBasePort
    /\ max_ports = MaxPorts
    /\ config \in Configs
    /\ InitOrchestrator

\* a coroutine segment ran: its world becomes the state
Apply(t, W) ==
    /\ allocated' = W.allocated
    /\ sessions' = W.sessions
    /\ monitors' = W.monitors
    /\ procs' = W.procs
    /\ started' = W.started
    /\ tasks' = [tasks EXCEPT ![t] = W.f]
    /\ done' = W.done
    /\ calls' = IF tasks[t].pc = "idle" THEN calls + 1 ELSE calls
    /\ UNCHANGED <<base_port, max_ports, config, faults, last>>

Idle(t) == tasks[t].pc = "idle"

CanCall == calls < MaxCalls

\* a new coroutine in slot t
Call(t, op, d, m) ==
    [World(t) EXCEPT !.f = [IdleFrame EXCEPT !.pc = "run", !.op = op,
                                             !.doc = d, !.mode = m]]

AllIdle == \A u \in Tasks : Idle(u)

\* cli.async_main: the API is served between start() and stop()
Serving == started /\ Idle(Main)

\* a request takes the first free handler slot (the slots are interchangeable)
FreeSlot(t) == CanCall /\ Idle(t) /\ Serving /\ (t = "t1" \/ ~Idle("t1"))

CreateSessionCall(t, d, m) ==
    /\ FreeSlot(t)
    /\ Apply(t, create_session(Call(t, "create", d, m)))

DestroySessionCall(t, d) ==
    /\ FreeSlot(t)
    /\ Apply(t, destroy_session(Call(t, "destroy", d, "")))

StartMonitorCall(t, d) ==
    /\ FreeSlot(t)
    /\ Apply(t, start_monitor(Call(t, "start_monitor", d, "")))

StopMonitorCall(t, d) ==
    /\ FreeSlot(t)
    /\ Apply(t, stop_monitor(Call(t, "stop_monitor", d, "")))

\* processes.start(python:doc) returned inside create_session
CreateRuntimeResume(t) ==
    /\ tasks[t].pc = "create_runtime_wait"
    /\ ProcStatus(procs, RuntimeName(tasks[t].doc)) # "starting"
    /\ Apply(t, CreateAfterRuntimeStart(World(t)))

\* processes.start(monitor:doc) returned inside start_monitor
StartMonitorResume(t) ==
    /\ tasks[t].pc = "start_monitor_wait"
    /\ ProcStatus(procs, MonitorName(tasks[t].doc)) # "starting"
    /\ Apply(t, StartMonitorAfterStart(World(t)))

\* processes.stop(session.runtime_process) returned inside destroy_session
DestroyRuntimeResume(t) ==
    /\ tasks[t].pc = "destroy_runtime_wait"
    /\ Apply(t, DestroyAfterRuntimeStop(
            [World(t) EXCEPT !.procs = ProcStopEnd(@, tasks[t].found.runtime_process)]))

\* processes.stop(monitor:doc) returned inside stop_monitor
StopMonitorResume(t) ==
    /\ tasks[t].pc = "stop_monitor_wait"
    /\ Apply(t, StopMonitorAfterStop(
            [World(t) EXCEPT !.procs = ProcStopEnd(@, MonitorName(tasks[t].doc))]))

Perms(S) == {q \in [1..Cardinality(S) -> S] : \A i, j \in DOMAIN q : i # j => q[i] # q[j]}

StartCall ==
    /\ CanCall /\ AllIdle
    /\ Apply(Main, start(Call(Main, "start", "", "")))

StartSyncResume ==
    /\ tasks[Main].pc = "start_sync_wait"
    /\ ProcStatus(procs, SyncName) # "starting"
    /\ Apply(Main, StartRuntimes(World(Main)))

StartRuntimeResume ==
    /\ tasks[Main].pc = "start_runtime_wait"
    /\ ProcStatus(procs, PythonName) # "starting"
    /\ Apply(Main, StartFinish(World(Main)))

StopCall ==
    /\ CanCall /\ AllIdle
    /\ \E keys \in Perms(DOMAIN monitors) :
          Apply(Main, stop(Call(Main, "stop", "", ""), keys))

StopLoopStep ==
    /\ tasks[Main].pc = "stop_loop"
    /\ Apply(Main, StopLoop(World(Main)))

StopAllResume ==
    /\ tasks[Main].pc = "stop_all_wait"
    /\ Apply(Main, StopFinish(World(Main)))

(* The child processes *)

EnvFrame ==
    /\ done' = NoDone
    /\ UNCHANGED <<base_port, max_ports, allocated, sessions, monitors,
                   started, config, tasks, calls, last>>

\* the readiness marker is read from the child's output
MarkerObserved(n) ==
    /\ ProcStatus(procs, n) = "starting"
    /\ procs' = DictSet(procs, n, "running")
    /\ UNCHANGED faults
    /\ EnvFrame

\* Mutant: the readiness timer also fires on a record that is running.
TimeoutAlwaysApplies(table, n) == ProcStatus(table, n) \in {"starting", "running"}

\* the readiness timer and the early-exit watch act on a starting record only
TimeoutApplies(table, n) == ProcStatus(table, n) = "starting"

\* the readiness timeout expires, or the child exits before the marker
StartFails(n) ==
    /\ faults < MaxFaults
    /\ TimeoutApplies(procs, n)
    /\ procs' = DictSet(procs, n, "failed")
    /\ faults' = faults + 1
    /\ EnvFrame

\* a running child exits on its own
ProcessExits(n) ==
    /\ faults < MaxFaults
    /\ ProcStatus(procs, n) = "running"
    /\ procs' = DictSet(procs, n, "failed")
    /\ faults' = faults + 1
    /\ EnvFrame

Next ==
    \/ \E t \in Handlers, d \in Docs, m \in Modes : CreateSessionCall(t, d, m)
    \/ \E t \in Handlers, d \in Docs : DestroySessionCall(t, d)
    \/ \E t \in Handlers, d \in Docs : StartMonitorCall(t, d)
    \/ \E t \in Handlers, d \in Docs : StopMonitorCall(t, d)
    \/ \E t \in Handlers : CreateRuntimeResume(t)
    \/ \E t \in Handlers : StartMonitorResume(t)
    \/ \E t \in Handlers : DestroyRuntimeResume(t)
    \/ \E t \in Handlers : StopMonitorResume(t)
    \/ StartCall
    \/ StartSyncResume
    \/ StartRuntimeResume
    \/ StopCall
    \/ StopLoopStep
    \/ StopAllResume
    \/ \E n \in DOMAIN procs : MarkerObserved(n)
    \/ \E n \in DOMAIN procs : StartFails(n)
    \/ \E n \in DOMAIN procs : ProcessExits(n)

Spec == Init /\ [][Next]_vars

----------------------------------------------------------------------------
(* Requests for different documents only: a request for d is made while no *)
(* other handler is working on d.                                          *)

DocFree(d) == \A u \in Handlers : Idle(u) \/ tasks[u].doc # d

NextDistinct ==
    \/ \E t \in Handlers, d \in Docs, m \in Modes : DocFree(d) /\ CreateSessionCall(t, d, m)
    \/ \E t \in Handlers, d \in Docs : DocFree(d) /\ DestroySessionCall(t, d)
    \/ \E t \in Handlers, d \in Docs : DocFree(d) /\ StartMonitorCall(t, d)
    \/ \E t \in Handlers, d \in Docs : DocFree(d) /\ StopMonitorCall(t, d)
    \/ \E t \in Handlers : CreateRuntimeResume(t)
    \/ \E t \in Handlers : StartMonitorResume(t)
    \/ \E t \in Handlers : DestroyRuntimeResume(t)
    \/ \E t \in Handlers : StopMonitorResume(t)
    \/ StartCall
    \/ StartSyncResume
    \/ StartRuntimeResume
    \/ StopCall
    \/ StopLoopStep
    \/ StopAllResume
    \/ \E n \in DOMAIN procs : MarkerObserved(n)
    \/ \E n \in DOMAIN procs : StartFails(n)
    \/ \E n \in DOMAIN procs : ProcessExits(n)

SpecDistinct == Init /\ [][NextDistinct]_vars

----------------------------------------------------------------------------
(* Concurrent create_session(doc, "dedicated") requests and nothing else.  *)
(* Where python has no package path a dedicated request stores a shared    *)
(* session, and the next dedicated request for the document replaces it.   *)

NextCreate ==
    \/ \E t \in Handlers, d \in Docs : CreateSessionCall(t, d, "dedicated")
    \/ \E t \in Handlers : CreateRuntimeResume(t)
    \/ \E t \in Handlers : StartMonitorResume(t)
    \/ \E t \in Handlers : StopMonitorResume(t)
    \/ StartCall
    \/ StartSyncResume
    \/ StartRuntimeResume
    \/ \E n \in DOMAIN procs : MarkerObserved(n)
    \/ \E n \in DOMAIN procs : StartFails(n)
    \/ \E n \in DOMAIN procs : ProcessExits(n)

SpecCreate == Init /\ [][NextCreate]_vars

----------------------------------------------------------------------------
(* Process starts whose readiness race is always resolved: the marker is   *)
(* read or the timeout expires, and a child that became ready keeps        *)
(* running.                                                                *)

ProcNames ==
    {SyncName, PythonName} \cup {MonitorName(d) : d \in Docs} \cup {RuntimeName(d) : d \in Docs}

NextReady ==
    \/ \E t \in Handlers, d \in Docs : CreateSessionCall(t, d, "dedicated")
    \/ \E t \in Handlers : CreateRuntimeResume(t)
    \/ \E t \in Handlers : StartMonitorResume(t)
    \/ \E t \in Handlers : StopMonitorResume(t)
    \/ StartCall
    \/ StartSyncResume
    \/ StartRuntimeResume
    \/ \E n \in DOMAIN procs : MarkerObserved(n)
    \/ \E n \in DOMAIN procs : StartFails(n)

SpecReady ==
    /\ Init /\ [][NextReady]_vars
    /\ \A n \in ProcNames : WF_vars(MarkerObserved(n) \/ StartFails(n))

----------------------------------------------------------------------------
(* Overlapping starts: start_monitor and create_session(doc, "dedicated")  *)
(* requests, also for the same document, and nothing that stops a process  *)
(* other than a replaced session's monitor.                                *)

NextStart ==
    \/ \E t \in Handlers, d \in Docs : CreateSessionCall(t, d, "dedicated")
    \/ \E t \in Handlers, d \in Docs : StartMonitorCall(t, d)
    \/ \E t \in Handlers : CreateRuntimeResume(t)
    \/ \E t \in Handlers : StartMonitorResume(t)
    \/ \E t \in Handlers : StopMonitorResume(t)
    \/ StartCall
    \/ StartSyncResume
    \/ StartRuntimeResume
    \/ \E n \in DOMAIN procs : MarkerObserved(n)
    \/ \E n \in DOMAIN procs : StartFails(n)
    \/ \E n \in DOMAIN procs : ProcessExits(n)

SpecStart == Init /\ [][NextStart]_vars

----------------------------------------------------------------------------
(* Sessions on independently started monitors: create_session(doc,         *)
(* "shared") is requested only while a monitor for doc, started by         *)
(* start_monitor, is registered; nothing but a session teardown stops a    *)
(* monitor and no monitor exits on its own.                                *)

NextOwn ==
    \/ \E t \in Handlers, d \in Docs :
          d \in DOMAIN monitors /\ DocFree(d) /\ CreateSessionCall(t, d, "shared")
    \/ \E t \in Handlers, d \in Docs : DocFree(d) /\ DestroySessionCall(t, d)
    \/ \E t \in Handlers, d \in Docs : DocFree(d) /\ StartMonitorCall(t, d)
    \/ \E t \in Handlers : StartMonitorResume(t)
    \/ \E t \in Handlers : StopMonitorResume(t)
    \/ StartCall
    \/ StartSyncResume
    \/ StartRuntimeResume
    \/ \E n \in DOMAIN procs : MarkerObserved(n)
    \/ \E n \in DOMAIN procs : StartFails(n)

SpecOwn == Init /\ [][NextOwn]_vars

----------------------------------------------------------------------------
(* Requests for different documents on port ranges down to a single port,  *)
(* so that dedicated requests meet an exhausted range.                     *)

InitScarce ==
    /\ base_port = OrchestratorBasePort
    /\ max_ports \in 1 .. MaxPorts
    /\ config \in Configs
    /\ InitOrchestrator

SpecScarce == InitScarce /\ [][NextDistinct]_vars

----------------------------------------------------------------------------
(* A PortAllocator on its own: any sequence of allocate and release calls. *)

InitAlloc ==
    /\ base_port \in AllocatorBases
    /\ max_ports \in 1..MaxRange
    /\ config = DevConfig
    /\ InitOrchestrator

AllocFrame == UNCHANGED <<base_port, max_ports, sessions, monitors, procs,
                          started, config, tasks, done, calls, faults>>

\* allocate(), lines 39-46
AllocateCall ==
    LET port == AllocatePort(allocated, base_port, max_ports)
    IN  /\ allocated' = AllocateMark(allocated, port)
        /\ last' = [op |-> "allocate", port |-> 0, ret |-> port, before |-> allocated]
        /\ AllocFrame

\* release(port), lines 48-50, with ports in and around the range
ReleaseCall(port) ==
    /\ allocated' = ReleasePort(allocated, port)
    /\ last' = [op |-> "release", port |-> port, ret |-> 0, before |-> allocated]
    /\ AllocFrame

NextAlloc ==
    \/ AllocateCall
    \/ \E port \in (base_port - 1) .. (base_port + max_ports) : ReleaseCall(port)

SpecAlloc == InitAlloc /\ [][NextAlloc]_vars

\* is_monitor_running(doc), lines 240-243
is_monitor_running(d) ==
    d \in DOMAIN monitors /\ is_running(procs, monitors[d])

----------------------------------------------------------------------------
(* Properties *)

HandlersIdle == \A t \in Handlers : Idle(t)

\* the runtime ports recorded in stored sessions
SessionPorts == {sessions[d].runtime_port : d \in DOMAIN sessions} \ {0}

\* the child behind a process name exists and has not terminated
Alive(name) == ProcStatus(procs, name) \in NonTerminal

\* C1: when Orchestrator.stop has returned, the process table and the
\* reserved-port set are both empty.
ShutdownCompleteness ==
    done.op = "stop" => (DOMAIN procs = {} /\ allocated = {})

\* C2: no session is left in the session table when stop_all is issued, nor
\* when Orchestrator.stop has returned.
ShutdownDestroysSessions ==
    (tasks[Main].pc = "stop_all_wait" \/ done.op = "stop") => DOMAIN sessions = {}

\* C3: whenever no create_session / destroy_session call is in progress, the
\* reserved ports are exactly the runtime ports recorded in stored sessions.
ReservedPortsAreSessionPorts ==
    HandlersIdle => allocated = SessionPorts

\* a teardown of e's session is past its release: the session may still be
\* stored, but its port is no longer its own
Released(e) ==
    \E u \in Handlers :
        /\ tasks[u].doc = e /\ tasks[u].found.runtime_port # 0
        /\ tasks[u].pc \notin {"idle", "destroy_runtime_wait"}

\* the ports owned on behalf of documents other than d: those their stored
\* sessions record and those their create_session calls hold
OtherPorts(d) ==
    ({sessions[e].runtime_port : e \in {x \in DOMAIN sessions \ {d} : ~Released(x)}}
     \cup {tasks[u].port : u \in {v \in Handlers : tasks[v].doc # d}})
    \ {0}

\* the reserved ports that belong to document d
PortsOf(d) == allocated \ OtherPorts(d)

\* C4: under concurrent create_session(doc, "dedicated") calls, the ports
\* handed to the calls in progress and the ports recorded in stored sessions
\* are pairwise distinct.
PortUniqueness ==
    /\ \A t, u \in Handlers :
          (t # u /\ tasks[t].port # 0) => tasks[t].port # tasks[u].port
    /\ \A t \in Handlers : \A d \in DOMAIN sessions :
          tasks[t].port # 0 => sessions[d].runtime_port # tasks[t].port
    /\ \A d, e \in DOMAIN sessions :
          (d # e /\ sessions[d].runtime_port # 0)
             => sessions[d].runtime_port # sessions[e].runtime_port

\* two overlapping dedicated creates for different documents, each holding a port
PortUniquenessWitness ==
    /\ tasks["t1"].pc = "create_runtime_wait"
    /\ tasks["t2"].pc = "create_runtime_wait"
    /\ tasks["t1"].doc # tasks["t2"].doc

\* C5: with concurrent requests for different documents, a dedicated
\* session's port is unreserved only once its runtime process is gone, and a
\* create_session call never holds a port that another document's session
\* records while that session's runtime process is still alive.
PortReleasedAfterStop ==
    /\ \A d \in DOMAIN sessions :
          (sessions[d].runtime_port # 0 /\ sessions[d].runtime_port \notin allocated)
             => ~Alive(sessions[d].runtime_process)
    /\ \A t \in Handlers :
          (tasks[t].found.runtime_port # 0
              /\ tasks[t].found.runtime_port \notin allocated)
             => ~Alive(tasks[t].found.runtime_process)
    /\ \A t \in Handlers : \A d \in DOMAIN sessions \ {tasks[t].doc} :
          (tasks[t].port # 0 /\ sessions[d].runtime_port = tasks[t].port)
             => ~Alive(sessions[d].runtime_process)

\* a destroy has released its port and awaits the monitor's stop while a
\* create for another document has been handed that very port
PortReleasedAfterStopWitness ==
    \E t, u \in Handlers :
        /\ tasks[t].op = "destroy" /\ tasks[t].pc = "stop_monitor_wait"
        /\ tasks[t].found.runtime_port # 0
        /\ tasks[u].op = "create" /\ tasks[u].doc # tasks[t].doc
        /\ tasks[u].port = tasks[t].found.runtime_port

\* C6: a successful allocate returns the lowest port of [base, base+max) that
\* was not reserved, and reserves exactly that port.
AllocateLowestFree ==
    (last.op = "allocate" /\ last.ret # 0) =>
        /\ last.ret \in PortRange(base_port, max_ports)
        /\ last.ret \notin last.before
        /\ \A q \in PortRange(base_port, max_ports) : q < last.ret => q \in last.before
        /\ allocated = last.before \cup {last.ret}

\* range [9000, 9003) with 9001 released: the next allocation returns 9001
AllocateLowestFreeWitness ==
    /\ base_port = 9000 /\ max_ports = 3
    /\ last.op = "allocate" /\ last.before = {9000, 9002} /\ last.ret = 9001

\* C7: allocate raises exactly when every port of the range is reserved, it
\* then leaves the reserved set as it was, and no port outside the range is
\* ever reserved.
AllocateExhaustion ==
    /\ allocated \subseteq PortRange(base_port, max_ports)
    /\ last.op = "allocate" =>
          /\ (last.ret = 0) <=> (PortRange(base_port, max_ports) \subseteq last.before)
          /\ last.ret = 0 => allocated = last.before

\* the fourth allocation on a range of three
AllocateExhaustionWitness ==
    /\ max_ports = 3
    /\ last.op = "allocate" /\ last.ret = 0
    /\ Cardinality(allocated) = 3

\* C8: release(port) removes port from the reserved set and nothing else,
\* is a no-op without error on a port that is not reserved, and releasing
\* again changes nothing.
ReleaseDiscards ==
    last.op = "release" =>
        /\ allocated = last.before \ {last.port}
        /\ last.port \notin last.before => allocated = last.before
        /\ ReleasePort(allocated, last.port) = allocated
        /\ last.ret = 0

\* a reserved port is released while others stay reserved
ReleaseDiscardsWitness ==
    /\ last.op = "release"
    /\ last.port \in last.before
    /\ Cardinality(allocated) = 2

\* create_session(doc, "dedicated") just returned after replacing a shared session
SwitchedToDedicated ==
    /\ done.op = "create" /\ done.mode = "dedicated" /\ done.ret = "session"
    /\ done.found.doc = done.doc /\ ~done.found.dedicated_runtime
    /\ config.python_path

\* C9: after create_session(doc, "shared") then create_session(doc,
\* "dedicated"), doc has one session, it is dedicated, its runtime process
\* python:doc is in the process table and exactly one port is reserved for doc.
ModeSwitchToDedicated ==
    SwitchedToDedicated =>
        /\ done.doc \in DOMAIN sessions
        /\ sessions[done.doc].dedicated_runtime
        /\ sessions[done.doc].runtime_process = RuntimeName(done.doc)
        /\ RuntimeName(done.doc) \in DOMAIN procs
        /\ sessions[done.doc].runtime_url = DedicatedUrl(sessions[done.doc].runtime_port)
        /\ PortsOf(done.doc) = {sessions[done.doc].runtime_port}

ModeSwitchToDedicatedWitness ==
    /\ SwitchedToDedicated
    /\ done.found.runtime_url = SharedUrl
    /\ Alive(RuntimeName(done.doc))

\* create_session(doc, "shared") replacing a dedicated session: the call is
\* past the teardown of the old session (its runtime stop has returned)
TearingDown(t) ==
    /\ tasks[t].op = "create" /\ tasks[t].mode = "shared"
    /\ tasks[t].found.dedicated_runtime
    /\ tasks[t].pc \in {"stop_monitor_wait", "start_monitor_wait"}

\* create_session(doc, "shared") just returned after replacing a dedicated session
SwitchedToShared ==
    /\ done.op = "create" /\ done.mode = "shared" /\ done.ret = "session"
    /\ done.found.dedicated_runtime

\* C10: switching a dedicated session to shared tears the old session down
\* first: until the old runtime is stopped and its port released the old
\* session stays stored, the replacement is stored only after that, and the
\* replacement records no port and no runtime process.
ModeSwitchToShared ==
    /\ \A t \in Handlers :
          (tasks[t].op = "create" /\ tasks[t].pc = "destroy_runtime_wait")
             => DictGet(sessions, tasks[t].doc, NoSession) = tasks[t].found
    /\ \A t \in Handlers :
          TearingDown(t) =>
             /\ ~Alive(tasks[t].found.runtime_process)
             /\ tasks[t].found.runtime_port \notin PortsOf(tasks[t].doc)
             /\ DictGet(sessions, tasks[t].doc, NoSession) =
                   IF tasks[t].pc = "stop_monitor_wait" THEN tasks[t].found ELSE NoSession
    /\ SwitchedToShared =>
          /\ done.doc \in DOMAIN sessions
          /\ sessions[done.doc].runtime_port = 0
          /\ sessions[done.doc].runtime_process = ""
          /\ ~sessions[done.doc].dedicated_runtime
          /\ ~Alive(done.found.runtime_process)
          /\ PortsOf(done.doc) = {}

ModeSwitchToSharedWitness ==
    /\ SwitchedToShared
    /\ done.found.runtime_port # 0
    /\ sessions[done.doc].runtime_url = SharedUrl

\* the step is a call of op for document d by a free handler: the call either
\* returned within the step or is now suspended in handler slot t
CallStep(t, op, d) ==
    /\ Idle(t) /\ calls' = calls + 1
    /\ \/ tasks'[t].op = op /\ tasks'[t].doc = d
       \/ Idle(t)' /\ done'.op = op /\ done'.doc = d

\* the mode argument of the create_session call made in the step
CallMode(t) == IF Idle(t)' THEN done'.mode ELSE tasks'[t].mode

TablesUnchanged == UNCHANGED <<sessions, monitors, procs, allocated>>

\* C11: create_session(doc, mode) on a document whose session already has the
\* requested mode returns that session at once and leaves the session table,
\* the monitor table, the process table and the reserved ports as they were.
IdempotentCreate ==
    [][\A t \in Handlers, d \in Docs :
          (/\ CallStep(t, "create", d)
           /\ d \in DOMAIN sessions
           /\ sessions[d].dedicated_runtime = (CallMode(t) = "dedicated"))
          => /\ Idle(t)'
             /\ done'.ret = "session"
             /\ done'.found = sessions[d]
             /\ TablesUnchanged]_vars

\* a dedicated request has just returned the dedicated session it found
IdempotentCreateWitness ==
    /\ done.op = "create" /\ done.ret = "session" /\ done.mode = "dedicated"
    /\ done.found.doc = done.doc /\ done.found.dedicated_runtime
    /\ DictGet(sessions, done.doc, NoSession) = done.found
    /\ HandlersIdle

\* C12: destroy_session(doc) without a session for doc, and stop_monitor(doc)
\* without a monitor for doc, return True at once and leave the four tables
\* as they were; a destroy_session or stop_monitor that returns True leaves
\* no entry for doc, so a second call in sequence is such a no-op.
IdempotentDestroy ==
    [][\A t \in Handlers, d \in Docs :
          /\ (CallStep(t, "destroy", d) /\ d \notin DOMAIN sessions)
                => (Idle(t)' /\ done'.ret = "True" /\ TablesUnchanged)
          /\ (CallStep(t, "stop_monitor", d) /\ d \notin DOMAIN monitors)
                => (Idle(t)' /\ done'.ret = "True" /\ TablesUnchanged)
          /\ (done'.op = "destroy" /\ done'.doc = d /\ done'.ret = "True")
                => d \notin DOMAIN sessions'
          /\ (done'.op = "stop_monitor" /\ done'.doc = d /\ done'.ret = "True")
                => d \notin DOMAIN monitors']_vars

\* destroy_session found no session for its document while the other
\* document has a session with a monitor
IdempotentDestroyWitness ==
    /\ done.op = "destroy" /\ done.ret = "True" /\ done.found = NoSession
    /\ DOMAIN sessions # {} /\ DOMAIN monitors # {}

\* C13: no destroy_session and no stop_monitor call ends with an error, also
\* when calls for the same document overlap.
DestroyNeverFails ==
    done.op \in {"destroy", "stop_monitor"} => done.ret = "True"

\* the step is one of a destroy_session(d) call running in handler slot t
DestroyStep(t, d) ==
    \/ CallStep(t, "destroy", d)
    \/ tasks[t].op = "destroy" /\ tasks[t].doc = d /\ tasks'[t] # tasks[t]

\* the session the destroy_session(d) call of slot t is tearing down
Doomed(t, d) == IF Idle(t) THEN DictGet(sessions, d, NoSession) ELSE tasks[t].found

\* entry k of a table is the same before and after the step
SameEntry(f, g, k) == (k \in DOMAIN f <=> k \in DOMAIN g) /\ (k \in DOMAIN f => f[k] = g[k])

\* the processes that do not belong to document d
ForeignProcs(d) ==
    {SyncName, PythonName}
      \cup {RuntimeName(e) : e \in Docs \ {d}} \cup {MonitorName(e) : e \in Docs \ {d}}

\* C14: with requests for different documents in flight, every step of
\* destroy_session(d) leaves the other documents' sessions, monitors, runtime
\* and monitor processes, the sync server and the shared runtime as they
\* were and unreserves at most the port of d's session; when it returns the
\* session is removed, its runtime and its monitor are gone and no port is
\* reserved for d.
DestroyFrame ==
    [][\A t \in Handlers, d \in Docs :
          DestroyStep(t, d) =>
             /\ \A e \in Docs \ {d} :
                   SameEntry(sessions, sessions', e) /\ SameEntry(monitors, monitors', e)
             /\ \A n \in ForeignProcs(d) : SameEntry(procs, procs', n)
             /\ allocated' \subseteq allocated
             /\ allocated \ allocated' \subseteq {Doomed(t, d).runtime_port}
             /\ (done'.op = "destroy" /\ done'.ret = "True") =>
                   /\ d \notin DOMAIN sessions'
                   /\ done'.found.runtime_process # "" =>
                         /\ ProcStatus(procs', done'.found.runtime_process) \notin NonTerminal
                         /\ PortsOf(d)' = {}
                   /\ done'.found.monitor_process # "" =>
                         /\ d \notin DOMAIN monitors'
                         /\ ProcStatus(procs', done'.found.monitor_process) \notin NonTerminal]_vars

\* a dedicated session with a monitor has been destroyed while the other
\* document keeps its dedicated session, its port and its live processes
DestroyFrameWitness ==
    /\ done.op = "destroy" /\ done.ret = "True"
    /\ done.found.runtime_port # 0 /\ done.found.monitor_process # ""
    /\ \E e \in DOMAIN sessions :
          /\ e # done.doc
          /\ sessions[e].runtime_port \in allocated
          /\ Alive(RuntimeName(e)) /\ Alive(MonitorName(e))
    /\ Alive(SyncName) /\ Alive(PythonName)

\* C15: with monitors managed, every stored session records the monitor
\* name of its document, whether or not the monitor reached running.
MonitorNameRecorded ==
    config.monitor_managed =>
        \A d \in DOMAIN sessions : sessions[d].monitor_process = MonitorName(d)

\* create_session(doc, "dedicated") just returned where the runtime package
\* directory does not exist
MissingPackageCreate ==
    ~config.python_path /\ done.op = "create" /\ done.mode = "dedicated"

\* C16: where the runtime package directory is missing, a dedicated request
\* leaves no port reserved and starts no runtime process, and it returns
\* without error a stored session with no runtime address, port or process.
MissingPackageReleasesPort ==
    ~config.python_path =>
        /\ allocated = {}
        /\ \A d \in Docs : RuntimeName(d) \notin DOMAIN procs
        /\ \A t \in Handlers : tasks[t].pc # "create_runtime_wait"
        /\ MissingPackageCreate =>
              /\ done.ret = "session"
              /\ done.doc \in DOMAIN sessions
              /\ sessions[done.doc].runtime_url = ""
              /\ sessions[done.doc].runtime_port = 0
              /\ sessions[done.doc].runtime_process = ""

MissingPackageReleasesPortWitness ==
    /\ MissingPackageCreate
    /\ done.doc \in DOMAIN sessions
    /\ sessions[done.doc].runtime_url = ""

\* C17: when create_session(doc, "shared") has returned a session, the
\* session stored for doc is bound to the shared runtime's address and records
\* no port and no runtime process, whatever was requested for doc before.
SharedBinding ==
    (done.op = "create" /\ done.mode = "shared" /\ done.ret = "session"
        /\ config.python_configured) =>
        /\ done.doc \in DOMAIN sessions
        /\ sessions[done.doc].runtime_url = SharedUrl
        /\ sessions[done.doc].runtime_port = 0
        /\ sessions[done.doc].runtime_process = ""

\* C18: a create_session(doc, "dedicated") that finds every port reserved
\* ends with the allocator's RuntimeError, with no session stored for doc and
\* no port reserved for it; the error is not absorbed: a dedicated request
\* that returns a session (the package being present) stored it with a port
\* of the range.
ExhaustionRaised ==
    /\ (done.op = "create" /\ done.ret = "RuntimeError") =>
          /\ done.mode = "dedicated"
          /\ done.doc \notin DOMAIN sessions
          /\ allocated = PortRange(base_port, max_ports)
          /\ PortsOf(done.doc) = {}
    /\ (done.op = "create" /\ done.mode = "dedicated" /\ done.ret = "session"
          /\ config.python_path) =>
          /\ done.doc \in DOMAIN sessions
          /\ sessions[done.doc].runtime_port \in PortRange(base_port, max_ports)

\* the single port is held by the other document's session; the request for
\* this document replaced a shared session and failed
ExhaustionRaisedWitness ==
    /\ done.op = "create" /\ done.ret = "RuntimeError"
    /\ done.found.doc = done.doc
    /\ \E e \in DOMAIN sessions : sessions[e].runtime_port \in allocated

\* the process name whose start the coroutine in frame f is waiting for
StartWaitName(f) ==
    CASE f.pc = "start_monitor_wait" -> MonitorName(f.doc)
      [] f.pc = "create_runtime_wait" -> RuntimeName(f.doc)
      [] f.pc = "start_sync_wait" -> SyncName
      [] f.pc = "start_runtime_wait" -> PythonName
      [] OTHER -> ""

\* a child is spawned for name n in the step: its record becomes starting,
\* or a coroutine begins to wait for its readiness
Spawned(n) ==
    \/ ProcStatus(procs', n) = "starting" /\ ProcStatus(procs, n) # "starting"
    \/ \E t \in Tasks : StartWaitName(tasks'[t]) = n /\ StartWaitName(tasks[t]) # n

\* C19: while the record of a process name is starting or running, no step
\* spawns a child for that name: a second start, also one issued while the
\* first is still waiting, gets the existing record.  (A record that is
\* stopping is excluded: the stop can complete and the name be started
\* again within one step of the same coroutine.)
IdempotentStart ==
    [][\A n \in ProcNames :
          ProcStatus(procs, n) \in {"starting", "running"} => ~Spawned(n)]_vars

\* start_monitor(doc) was called while another call's start of monitor:doc
\* was still waiting, and returned without a second spawn
IdempotentStartWitness ==
    \E t \in Handlers :
        /\ tasks[t].pc = "start_monitor_wait"
        /\ ProcStatus(procs, MonitorName(tasks[t].doc)) = "starting"
        /\ done.op = "start_monitor" /\ done.doc = tasks[t].doc

\* C20: one signal decides a start: a starting record becomes running (the
\* marker) or failed (timeout or early exit), a record that became running
\* is not failed by the timer afterwards, a record that failed is not made
\* running by a late marker, and no record stays starting for ever.
ReadinessRace ==
    /\ [][\A n \in ProcNames :
            /\ ProcStatus(procs, n) = "starting" =>
                  ProcStatus(procs', n) \in {"starting", "running", "failed", "stopping"}
            /\ ProcStatus(procs, n) = "running" => ProcStatus(procs', n) # "failed"
            /\ ProcStatus(procs, n) = "failed" => ProcStatus(procs', n) # "running"]_vars
    /\ \A n \in ProcNames :
          [](ProcStatus(procs, n) = "starting" => <>(ProcStatus(procs, n) # "starting"))

\* one start was decided by the marker and another by the timeout
ReadinessRaceWitness ==
    \E n, m \in DOMAIN procs : procs[n] = "running" /\ procs[m] = "failed"


\* C21: when start_monitor(doc) has just returned True, the monitor of doc
\* is registered and its process is running.
StartedMonitorRuns ==
    (done.op = "start_monitor" /\ done.ret = "True") => is_monitor_running(done.doc)

\* C22: when create_session has just failed with the allocator's
\* RuntimeError, the session it found for the document at its call is still
\* stored, unchanged.
FailedCreateKeepsSession ==
    (done.op = "create" /\ done.ret = "RuntimeError" /\ done.found.doc = done.doc)
        => DictGet(sessions, done.doc, NoSession) = done.found

\* C23: a monitor that start_monitor started before the session was created
\* is still running when destroy_session has returned.
IndependentMonitorSurvives ==
    (done.op = "destroy" /\ done.ret = "True" /\ done.found.monitor_process # "")
        => is_monitor_running(done.doc)

\* C24: when destroy_session has just returned True for a document that had
\* a session, no monitor entry remains for the document (the supervisor's
\* stop never reports failure here).
DestroyLeavesNoMonitor ==
    (done.op = "destroy" /\ done.ret = "True" /\ done.found.doc = done.doc)
        => done.doc \notin DOMAIN monitors

\* C25: when monitors are not managed, every start_monitor call that returned
\* returned False, no session names a monitor process, no monitor is
\* registered and the process table holds no monitor process.
UnmanagedMonitors ==
    ~config.monitor_managed =>
        /\ done.op = "start_monitor" => done.ret = "False"
        /\ \A d \in DOMAIN sessions : sessions[d].monitor_process = ""
        /\ monitors = EmptyDict
        /\ \A d \in Docs : MonitorName(d) \notin DOMAIN procs

UnmanagedMonitorsWitness ==
    /\ ~config.monitor_managed
    /\ done.op = "start_monitor"
    /\ done.ret = "False"
    /\ done.doc \in DOMAIN sessions

====
